---- MODULE Spec2Model ----
(***************************************************************************)
(* Model of pkg/k8sutils/k8sutils.go: the group-snapshot PVC resolver      *)
(* (GetPVCsForGroupSnapshot, GetVolumeNamesFromLabelSelector), the CRD     *)
(* readiness waiters (ValidateCRD, ValidateCRDV1) and                      *)
(* GetImageRegistryFromDeployment.  One behaviour is one call of one of    *)
(* these functions; the answers of the cluster API are the inputs.         *)
(***************************************************************************)
EXTENDS Integers, Sequences, FiniteSets, TLC

VARIABLES op, pc,
          cluster, pvcRet, volNames, lookups, volRet,
          clock, polls, fetched, crdErr,
          deploy, imgRet

vars == <<op, pc, cluster, pvcRet, volNames, lookups, volRet,
          clock, polls, fetched, crdErr, deploy, imgRet>>

pvcVars == <<cluster, pvcRet, volNames, lookups, volRet>>
crdVars == <<clock, polls, fetched, crdErr>>
imgVars == <<deploy, imgRet>>

(* ------------------------------ bounds -------------------------------- *)
\* longest PVC list the selector returns
MaxPVCs == 3
\* longest status.conditions list of a fetched CRD
MaxConds == 2
\* longest container image reference, in characters
MaxImageLen == 5
\* longest imagePullSecrets list
MaxSecrets == 2

(* --------------------------- program constants ------------------------ *)
\* seconds
crdTimeout == 60
retryInterval == 5

(* ------------------------------ errors -------------------------------- *)
NoErr == [kind |-> "nil"]
ErrNotFound == [kind |-> "notfound"]
ErrUpstream(i) == [kind |-> "upstream", id |-> i]
ErrWaitTimeout == [kind |-> "timeout"]
ErrNoPVCs == [kind |-> "nopvcs"]
ErrPending(pvc) == [kind |-> "pending", name |-> pvc.name, phase |-> pvc.phase]
ErrLookup(n) == [kind |-> "lookup", name |-> n]
ErrNameConflict(reason) == [kind |-> "nameconflict", reason |-> reason]

(* ------------------------------ slices -------------------------------- *)
\* a Go slice: nil, or a (possibly empty) sequence of items
NilSlice == [nil |-> TRUE, items |-> <<>>]
Slice(s) == [nil |-> FALSE, items |-> s]

(* =============== Group-snapshot candidate resolver ==================== *)
PVCNames == {"pvc-a", "pvc-b", "pvc-c", "pvc-d"}
Phases == {"Pending", "Bound", "Lost"}
ClaimPending == "Pending"
ClaimBound == "Bound"

\* the volume the cluster has bound to each claim
VolumeOf(n) ==
    CASE n = "pvc-a" -> "vol-a"
      [] n = "pvc-b" -> "vol-b"
      [] n = "pvc-c" -> "vol-c"
      [] n = "pvc-d" -> "vol-d"

\* what the cluster answers: the list call fails, or it returns the claims of
\* one namespace (distinct names, any order, any phases), and per claim the
\* volume lookup fails or not
InitCluster ==
    \/ cluster = [items |-> <<>>, listErr |-> ErrUpstream(1), failing |-> {}]
    \/ \E n \in 0..MaxPVCs :
         \E ns \in [1..n -> PVCNames] :
           /\ \A i, j \in 1..n : i # j => ns[i] # ns[j]
           /\ \E ps \in [1..n -> Phases] :
                \E F \in SUBSET { ns[i] : i \in 1..n } :
                   cluster = [items |-> [i \in 1..n |->
                                           [name |-> ns[i], phase |-> ps[i]]],
                              listErr |-> NoErr,
                              failing |-> F]

\* faulty variant: only the first PVC is checked
PendingScanFirstOnly(items, i) ==
    IF i = 1 /\ Len(items) >= 1 /\ items[1].phase = ClaimPending THEN 1 ELSE 0

\* the loop over pvcList.Items: index of the PVC it returns the error for,
\* 0 when it runs to the end
RECURSIVE PendingScan(_, _)
PendingScan(items, i) ==
    IF i > Len(items) THEN 0
    ELSE IF items[i].phase = ClaimPending THEN i
    ELSE PendingScan(items, i + 1)

\* faulty variant: no check for an empty list
GetPVCsNoEmptyCheck(c) ==
    IF c.listErr # NoErr THEN [pvcs |-> NilSlice, err |-> c.listErr]
    ELSE IF PendingScan(c.items, 1) # 0
         THEN [pvcs |-> NilSlice,
               err |-> ErrPending(c.items[PendingScan(c.items, 1)])]
    ELSE [pvcs |-> Slice(c.items), err |-> NoErr]

GetPVCsForGroupSnapshot(c) ==
    IF c.listErr # NoErr THEN [pvcs |-> NilSlice, err |-> c.listErr]
    ELSE IF Len(c.items) = 0 THEN [pvcs |-> NilSlice, err |-> ErrNoPVCs]
    ELSE IF PendingScan(c.items, 1) # 0
         THEN [pvcs |-> NilSlice,
               err |-> ErrPending(c.items[PendingScan(c.items, 1)])]
    ELSE [pvcs |-> Slice(c.items), err |-> NoErr]

\* core.Instance().GetVolumeForPersistentVolumeClaim(&pvc)
GetVolumeForPersistentVolumeClaim(c, pvc) ==
    IF pvc.name \in c.failing
    THEN [vol |-> "", err |-> ErrLookup(pvc.name)]
    ELSE [vol |-> VolumeOf(pvc.name), err |-> NoErr]

\* faulty variant: the names resolved so far are returned with the error
OnLookupErrorPartial(vn, err) == [names |-> vn, err |-> err]

\* if err != nil { return nil, err }
OnLookupError(vn, err) == [names |-> NilSlice, err |-> err]

\* faulty variant: the new name is put in front
AppendVolFront(vn, v) == Slice(<<v>> \o vn.items)

\* volNames = append(volNames, volName)
AppendVol(vn, v) == Slice(Append(vn.items, v))

NoPVCRet == [pvcs |-> NilSlice, err |-> NoErr]
NoVolRet == [names |-> NilSlice, err |-> NoErr]

\* GetVolumeNamesFromLabelSelector up to its loop: the call of
\* GetPVCsForGroupSnapshot, the early return and make([]string, 0)
CallGetPVCs ==
    /\ op = "GetVolumeNamesFromLabelSelector"
    /\ pc = "start"
    /\ LET r == GetPVCsForGroupSnapshot(cluster)
       IN /\ pvcRet' = r
          /\ IF r.err # NoErr
             THEN /\ volRet' = [names |-> NilSlice, err |-> r.err]
                  /\ pc' = "done"
                  /\ UNCHANGED volNames
             ELSE /\ volNames' = Slice(<<>>)
                  /\ IF Len(r.pvcs.items) = 0
                     THEN /\ volRet' = [names |-> Slice(<<>>), err |-> NoErr]
                          /\ pc' = "done"
                     ELSE /\ pc' = "mapping"
                          /\ UNCHANGED volRet
    /\ UNCHANGED <<op, cluster, lookups, crdVars, imgVars>>

\* one iteration of the loop over pvcs, and the return after the last one
MapStep ==
    /\ pc = "mapping"
    /\ LET i == Len(lookups) + 1
           pvc == pvcRet.pvcs.items[i]
           r == GetVolumeForPersistentVolumeClaim(cluster, pvc)
       IN /\ lookups' = Append(lookups, pvc.name)
          /\ IF r.err # NoErr
             THEN /\ volRet' = OnLookupError(volNames, r.err)
                  /\ pc' = "done"
                  /\ UNCHANGED volNames
             ELSE /\ volNames' = AppendVol(volNames, r.vol)
                  /\ IF i = Len(pvcRet.pvcs.items)
                     THEN /\ volRet' = [names |-> volNames', err |-> NoErr]
                          /\ pc' = "done"
                     ELSE /\ pc' = "mapping"
                          /\ UNCHANGED volRet
    /\ UNCHANGED <<op, cluster, pvcRet, crdVars, imgVars>>

(* ===================== CRD readiness waiter =========================== *)
Established == "Established"
NamesAccepted == "NamesAccepted"
CondTypes == {Established, NamesAccepted, "Terminating"}
ConditionTrue == "True"
ConditionFalse == "False"
CondStatuses == {ConditionTrue, ConditionFalse, "Unknown"}

\* the reason strings the API server writes for each condition type
ReasonsOf(t) ==
    IF t = NamesAccepted THEN {"ListKindConflict", "PluralConflict"}
    ELSE {"InitialNamesAccepted"}

Conditions ==
    UNION { [type : {t}, status : CondStatuses, reason : ReasonsOf(t)] :
              t \in CondTypes }

\* status.conditions of a CRD: at most one condition per type, in any order
CondLists ==
    UNION { { c \in [1..n -> Conditions] :
                \A i, j \in 1..n : i # j => c[i].type # c[j].type } :
            n \in 0..MaxConds }

\* what one Get of the CRD answers
FetchResults ==
    { [err |-> ErrNotFound, conds |-> <<>>] }
    \cup { [err |-> ErrUpstream(i), conds |-> <<>>] : i \in 1..2 }
    \cup { [err |-> NoErr, conds |-> c] : c \in CondLists }

NoFetch == [err |-> NoErr, conds |-> <<>>]

IsNotFound(err) == err = ErrNotFound

\* faulty variant: an Established condition is never taken as success
CondLoopIgnoreEstablished(conds, i) ==
    IF \E j \in 1..Len(conds) :
          conds[j].type = NamesAccepted /\ conds[j].status = ConditionFalse
    THEN LET j == CHOOSE k \in 1..Len(conds) :
                    conds[k].type = NamesAccepted /\ conds[k].status = ConditionFalse
         IN [done |-> FALSE, err |-> ErrNameConflict(conds[j].reason)]
    ELSE [done |-> FALSE, err |-> NoErr]

\* the loop over crd.Status.Conditions with its switch (v1beta1), from
\* index i on; (false, nil) when it runs to the end
RECURSIVE CondLoop(_, _)
CondLoop(conds, i) ==
    IF i > Len(conds) THEN [done |-> FALSE, err |-> NoErr]
    ELSE IF conds[i].type = Established /\ conds[i].status = ConditionTrue
         THEN [done |-> TRUE, err |-> NoErr]
    ELSE IF conds[i].type = NamesAccepted /\ conds[i].status = ConditionFalse
         THEN [done |-> FALSE, err |-> ErrNameConflict(conds[i].reason)]
    ELSE CondLoop(conds, i + 1)

\* faulty variant: a name conflict is not reported, the poll goes on
CondLoopV1NoConflict(conds, i) ==
    IF \E j \in 1..Len(conds) :
          conds[j].type = Established /\ conds[j].status = ConditionTrue
    THEN [done |-> TRUE, err |-> NoErr]
    ELSE [done |-> FALSE, err |-> NoErr]

\* the same loop of ValidateCRDV1
RECURSIVE CondLoopV1(_, _)
CondLoopV1(conds, i) ==
    IF i > Len(conds) THEN [done |-> FALSE, err |-> NoErr]
    ELSE IF conds[i].type = Established /\ conds[i].status = ConditionTrue
         THEN [done |-> TRUE, err |-> NoErr]
    ELSE IF conds[i].type = NamesAccepted /\ conds[i].status = ConditionFalse
         THEN [done |-> FALSE, err |-> ErrNameConflict(conds[i].reason)]
    ELSE CondLoopV1(conds, i + 1)

\* faulty variant: not-found is returned as an error
ConditionFuncNotFoundFatal(f) ==
    IF f.err # NoErr THEN [done |-> FALSE, err |-> f.err]
    ELSE CondLoop(f.conds, 1)

\* the condition function ValidateCRD hands to wait.PollImmediate
ConditionFunc(f) ==
    IF IsNotFound(f.err) THEN [done |-> FALSE, err |-> NoErr]
    ELSE IF f.err # NoErr THEN [done |-> FALSE, err |-> f.err]
    ELSE CondLoop(f.conds, 1)

\* faulty variant: every fetch error is taken as not-found
ConditionFuncV1RetryAll(f) ==
    IF f.err # NoErr THEN [done |-> FALSE, err |-> NoErr]
    ELSE CondLoopV1(f.conds, 1)

\* the condition function ValidateCRDV1 hands to wait.PollImmediate
ConditionFuncV1(f) ==
    IF IsNotFound(f.err) THEN [done |-> FALSE, err |-> NoErr]
    ELSE IF f.err # NoErr THEN [done |-> FALSE, err |-> f.err]
    ELSE CondLoopV1(f.conds, 1)

CRDOps == {"ValidateCRD", "ValidateCRDV1"}

Condition(o, f) ==
    IF o = "ValidateCRD" THEN ConditionFunc(f) ELSE ConditionFuncV1(f)

\* one run of the condition function inside wait.PollImmediate: the fetch
\* answers f at time t; open is whether the poller's channel is still open
RunCondition(f, t, open) ==
    LET r == Condition(op, f)
    IN /\ fetched' = f
       /\ polls' = polls + 1
       /\ clock' = t
       /\ IF r.err # NoErr THEN pc' = "done" /\ crdErr' = r.err
          ELSE IF r.done THEN pc' = "done" /\ crdErr' = NoErr
          ELSE IF ~open THEN pc' = "done" /\ crdErr' = ErrWaitTimeout
          ELSE pc' = "polling" /\ UNCHANGED crdErr
       /\ UNCHANGED <<op, pvcVars, imgVars>>

\* wait.PollImmediate runs the condition once before any wait
PollImmediate ==
    /\ op \in CRDOps
    /\ pc = "start"
    /\ \E f \in FetchResults : RunCondition(f, clock, TRUE)

\* the ticker fires retryInterval later, within the window
PollTick ==
    /\ pc = "polling"
    /\ clock + retryInterval <= crdTimeout
    /\ \E f \in FetchResults : RunCondition(f, clock + retryInterval, TRUE)

\* the crdTimeout timer fires: the poller closes its channel, the condition
\* runs one last time and the wait ends
PollTimeout ==
    /\ pc = "polling"
    /\ clock + retryInterval >= crdTimeout
    /\ \E f \in FetchResults : RunCondition(f, crdTimeout, FALSE)

(* ================ GetImageRegistryFromDeployment ====================== *)
ImageChars == {"a", "/"}
SecretNames == {"regcred", "backup-secret"}

\* image references of the first container, as character sequences
Images == UNION { [1..n -> ImageChars] : n \in 0..MaxImageLen }

\* imagePullSecrets of the pod template: nil, or a list of secret names
PullSecrets ==
    {NilSlice} \cup
    UNION { { Slice(s) : s \in [1..n -> SecretNames] } : n \in 0..MaxSecrets }

\* what GetDeployment answers
Deployments ==
    { [err |-> ErrUpstream(1), image |-> <<>>, secrets |-> NilSlice] }
    \cup { [err |-> NoErr, image |-> i, secrets |-> s] :
             i \in Images, s \in PullSecrets }

\* strings.Split(s, "/"): the fields of s from position i on, cur being the
\* field read so far
RECURSIVE Split(_, _, _)
Split(s, i, cur) ==
    IF i > Len(s) THEN <<cur>>
    ELSE IF s[i] = "/" THEN <<cur>> \o Split(s, i + 1, <<>>)
    ELSE Split(s, i + 1, Append(cur, s[i]))

NoImgRet == [registry |-> <<>>, secret |-> "", err |-> NoErr, panic |-> FALSE]

GetImageRegistryFromDeployment(d) ==
    IF d.err # NoErr
    THEN [registry |-> <<>>, secret |-> "", err |-> d.err, panic |-> FALSE]
    ELSE LET imageFields == Split(d.image, 1, <<>>)
             registry == IF Len(imageFields) = 3 THEN imageFields[1] ELSE <<>>
             imageSecret == d.secrets
         IN IF ~imageSecret.nil
            THEN IF Len(imageSecret.items) >= 1
                 THEN [registry |-> registry, secret |-> imageSecret.items[1],
                       err |-> NoErr, panic |-> FALSE]
                 \* imageSecret[0] on an empty slice: index out of range
                 ELSE [registry |-> <<>>, secret |-> "", err |-> NoErr,
                       panic |-> TRUE]
            ELSE [registry |-> registry, secret |-> "", err |-> NoErr,
                  panic |-> FALSE]

CallGetImageRegistry ==
    /\ op = "GetImageRegistryFromDeployment"
    /\ pc = "start"
    /\ imgRet' = GetImageRegistryFromDeployment(deploy)
    /\ pc' = "done"
    /\ UNCHANGED <<op, deploy, pvcVars, crdVars>>

(* ========================== specification ============================= *)
Init ==
    /\ pc = "start"
    /\ pvcRet = NoPVCRet
    /\ volNames = NilSlice
    /\ lookups = <<>>
    /\ volRet = NoVolRet
    /\ clock = 0
    /\ polls = 0
    /\ fetched = NoFetch
    /\ crdErr = NoErr
    /\ imgRet = NoImgRet
    /\ \/ /\ op = "GetVolumeNamesFromLabelSelector"
          /\ InitCluster
          /\ deploy = [err |-> NoErr, image |-> <<>>, secrets |-> NilSlice]
       \/ /\ op \in CRDOps
          /\ cluster = [items |-> <<>>, listErr |-> NoErr, failing |-> {}]
          /\ deploy = [err |-> NoErr, image |-> <<>>, secrets |-> NilSlice]
       \/ /\ op = "GetImageRegistryFromDeployment"
          /\ cluster = [items |-> <<>>, listErr |-> NoErr, failing |-> {}]
          /\ deploy \in Deployments

Next ==
    \/ CallGetPVCs
    \/ MapStep
    \/ PollImmediate
    \/ PollTick
    \/ PollTimeout
    \/ CallGetImageRegistry

Spec == Init /\ [][Next]_vars

\* the Go runtime keeps the calling goroutine, the ticker and the timer
\* running: a call that can take a step takes one
FairSpec == Spec /\ WF_vars(Next)

(* ============================= properties ============================= *)
GVN == "GetVolumeNamesFromLabelSelector"

HasPending(items) == \E i \in 1..Len(items) : items[i].phase = ClaimPending
AllBound(items) == \A i \in 1..Len(items) : items[i].phase = ClaimBound
NameSeq(items) == [i \in 1..Len(items) |-> items[i].name]

\* C1: when the selected list holds at least one Pending PVC, both
\* GetPVCsForGroupSnapshot and GetVolumeNamesFromLabelSelector return an error
\* and nil, wherever the Pending PVC stands, and no volume lookup is made.
C1_PendingAborts ==
    (op = GVN /\ pc # "start" /\ cluster.listErr = NoErr /\ HasPending(cluster.items))
    => /\ pvcRet.err # NoErr
       /\ pvcRet.pvcs = NilSlice
       /\ pc = "done"
       /\ volRet.err = pvcRet.err
       /\ volRet.names = NilSlice
       /\ lookups = <<>>

C1_Witness ==
    /\ op = GVN /\ pc = "done"
    /\ Len(cluster.items) = 3
    /\ cluster.items[1].phase = ClaimBound
    /\ cluster.items[2].phase = ClaimBound
    /\ cluster.items[3].phase = ClaimPending
    /\ volRet.err = ErrPending(cluster.items[3])

\* C2: when the list call succeeds with zero items, GetPVCsForGroupSnapshot and
\* GetVolumeNamesFromLabelSelector return the no-PVCs error and nil; a nil
\* error never comes with an empty list.
C2_EmptyIsError ==
    /\ (op = GVN /\ pc # "start" /\ cluster.listErr = NoErr /\ Len(cluster.items) = 0)
       => /\ pvcRet = [pvcs |-> NilSlice, err |-> ErrNoPVCs]
          /\ pc = "done"
          /\ volRet = [names |-> NilSlice, err |-> ErrNoPVCs]
    /\ (op = GVN /\ pc # "start" /\ pvcRet.err = NoErr)
       => (~pvcRet.pvcs.nil /\ Len(pvcRet.pvcs.items) > 0)

C2_Witness ==
    /\ op = GVN /\ pc = "done"
    /\ cluster.listErr = NoErr
    /\ cluster.items = <<>>
    /\ volRet.err = ErrNoPVCs

\* C3: for a non-empty list of Bound PVCs whose lookups all succeed, the
\* returned names are, position by position, the volumes of the listed PVCs:
\* same length, list order, nothing dropped or duplicated.
C3_OrderPreserved ==
    (op = GVN /\ pc = "done" /\ cluster.listErr = NoErr /\ Len(cluster.items) > 0
        /\ AllBound(cluster.items) /\ cluster.failing = {})
    => /\ volRet.err = NoErr
       /\ ~volRet.names.nil
       /\ Len(volRet.names.items) = Len(cluster.items)
       /\ \A i \in 1..Len(cluster.items) :
             volRet.names.items[i] = VolumeOf(cluster.items[i].name)
       /\ lookups = NameSeq(cluster.items)

C3_Witness ==
    /\ op = GVN /\ pc = "done"
    /\ AllBound(cluster.items) /\ cluster.failing = {}
    /\ NameSeq(cluster.items) = <<"pvc-c", "pvc-a", "pvc-b">>
    /\ volRet = [names |-> Slice(<<"vol-c", "vol-a", "vol-b">>), err |-> NoErr]

\* C7 (as claimed): GetPVCsForGroupSnapshot returns a list with a nil error
\* only if the list is non-empty and all its PVCs are Bound, and only such a
\* list reaches the volume lookups.
C7_OnlyBoundReturned ==
    (op = GVN /\ pc # "start" /\ pvcRet.err = NoErr)
    => /\ Len(pvcRet.pvcs.items) > 0
       /\ AllBound(pvcRet.pvcs.items)

\* index of the first PVC of the list whose lookup fails, 0 if none
FirstFailing(items, F) ==
    IF \E i \in 1..Len(items) : items[i].name \in F
    THEN CHOOSE i \in 1..Len(items) :
            /\ items[i].name \in F
            /\ \A j \in 1..(i - 1) : items[j].name \notin F
    ELSE 0

\* C8: when the lookup of the k-th PVC of the validated list fails, the call
\* returns that lookup's error with a nil list, and the lookups made are
\* exactly those of PVCs 1..k.
C8_LookupErrorAborts ==
    (op = GVN /\ pc = "done" /\ pvcRet.err = NoErr
        /\ FirstFailing(pvcRet.pvcs.items, cluster.failing) # 0)
    => LET k == FirstFailing(pvcRet.pvcs.items, cluster.failing)
       IN /\ volRet = [names |-> NilSlice,
                       err |-> ErrLookup(pvcRet.pvcs.items[k].name)]
          /\ lookups = SubSeq(NameSeq(pvcRet.pvcs.items), 1, k)

C8_Witness ==
    /\ op = GVN /\ pc = "done"
    /\ Len(cluster.items) = 3
    /\ cluster.failing = {cluster.items[2].name}
    /\ volRet.err = ErrLookup(cluster.items[2].name)
    /\ Len(lookups) = 2

IsEstablishedTrue(c) == c.type = Established /\ c.status = ConditionTrue
IsNamesRejected(c) == c.type = NamesAccepted /\ c.status = ConditionFalse

\* C4 (as claimed): a first fetch whose CRD carries Established=True ends the
\* wait at once with success.
C4_EstablishedFirstPoll ==
    (op \in CRDOps /\ polls = 1 /\ fetched.err = NoErr
        /\ \E i \in 1..Len(fetched.conds) : IsEstablishedTrue(fetched.conds[i]))
    => (pc = "done" /\ crdErr = NoErr /\ clock = 0)

\* C4 (amended): a first fetch whose CRD carries Established=True, with no
\* NamesAccepted=False condition before it in the conditions list, ends the
\* wait with success on that poll, made at time 0.
C4_EstablishedFirstPollInOrder ==
    (op \in CRDOps /\ polls = 1 /\ fetched.err = NoErr
        /\ \E i \in 1..Len(fetched.conds) :
              /\ IsEstablishedTrue(fetched.conds[i])
              /\ \A j \in 1..(i - 1) : ~IsNamesRejected(fetched.conds[j]))
    => (pc = "done" /\ crdErr = NoErr /\ clock = 0)

C4_Witness ==
    /\ op \in CRDOps /\ polls = 1 /\ pc = "done" /\ crdErr = NoErr
    /\ Len(fetched.conds) = 2
    /\ IsEstablishedTrue(fetched.conds[1])
    /\ IsNamesRejected(fetched.conds[2])

\* C5 (as claimed): a poll whose CRD carries NamesAccepted=False ends the wait
\* on that poll with a name-conflict error holding that condition's reason.
C5_NameConflictImmediate ==
    \A i \in 1..Len(fetched.conds) :
       (op \in CRDOps /\ polls >= 1 /\ fetched.err = NoErr
           /\ IsNamesRejected(fetched.conds[i]))
       => (pc = "done" /\ crdErr = ErrNameConflict(fetched.conds[i].reason))

\* C5 (amended): a poll whose CRD carries NamesAccepted=False, with no
\* Established=True condition before it in the conditions list, ends the wait
\* on that poll with a name-conflict error holding that condition's reason.
C5_NameConflictInOrder ==
    \A i \in 1..Len(fetched.conds) :
       (op \in CRDOps /\ polls >= 1 /\ fetched.err = NoErr
           /\ IsNamesRejected(fetched.conds[i])
           /\ \A j \in 1..(i - 1) : ~IsEstablishedTrue(fetched.conds[j]))
       => (pc = "done" /\ crdErr = ErrNameConflict(fetched.conds[i].reason))

C5_Witness ==
    /\ op \in CRDOps /\ polls = 3 /\ clock < crdTimeout /\ pc = "done"
    /\ Len(fetched.conds) = 2
    /\ IsNamesRejected(fetched.conds[1])
    /\ IsEstablishedTrue(fetched.conds[2])
    /\ crdErr = ErrNameConflict("PluralConflict")

\* a fetch that leaves the waiter Pending
FetchPending(f) ==
    \/ f.err = ErrNotFound
    \/ /\ f.err = NoErr
       /\ \A i \in 1..Len(f.conds) :
             ~IsEstablishedTrue(f.conds[i]) /\ ~IsNamesRejected(f.conds[i])

C6_PendingOrTimeout ==
    (op \in CRDOps /\ polls >= 1 /\ FetchPending(fetched))
    => IF pc = "done"
       THEN crdErr = ErrWaitTimeout /\ clock = crdTimeout
       ELSE /\ pc = "polling" /\ crdErr = NoErr /\ clock <= crdTimeout
            /\ ENABLED (PollTick \/ PollTimeout)

C6_Bounded ==
    op \in CRDOps
    => /\ clock <= crdTimeout
       /\ polls <= (crdTimeout \div retryInterval) + 2
       /\ (crdErr = ErrWaitTimeout => FetchPending(fetched))

\* every step of the wait is one more fetch, at a time not earlier than the
\* one before
C6_Progress ==
    (op \in CRDOps) => (polls' = polls + 1 /\ clock' >= clock)

\* C6: while every fetch is not-found or carries neither Established=True nor
\* NamesAccepted=False the waiter stays Pending and goes on polling; no poll
\* is made after the 60s window; the call ends with the timeout error when the
\* fetch at the end of the window is still Pending; the number of polls is
\* bounded and each step is a new poll, so the loop cannot run forever.
C6_TimesOut ==
    /\ []C6_PendingOrTimeout
    /\ []C6_Bounded
    /\ [][C6_Progress]_vars

\* under fair scheduling every wait returns
C6_Terminates == (op \in CRDOps) ~> (pc = "done")

C6_Witness ==
    /\ op \in CRDOps /\ pc = "done"
    /\ crdErr = ErrWaitTimeout
    /\ fetched.err = ErrNotFound
    /\ polls = (crdTimeout \div retryInterval) + 2

\* C9: a poll whose fetch fails with an error other than not-found ends the
\* wait on that poll, and the call returns that very error.
C9_UpstreamErrorPropagates ==
    (op \in CRDOps /\ polls >= 1 /\ fetched.err # NoErr /\ ~IsNotFound(fetched.err))
    => (pc = "done" /\ crdErr = fetched.err)

C9_Witness ==
    /\ op \in CRDOps /\ pc = "done"
    /\ polls = 4
    /\ fetched.err = ErrUpstream(2)
    /\ crdErr = ErrUpstream(2)

\* C10 (as claimed): for a Deployment fetched without error the call returns
\* normally with a nil error and the first pull secret's name, or "" when the
\* list has no entries, be it nil or empty.
C10_PullSecretOrEmpty ==
    (op = "GetImageRegistryFromDeployment" /\ pc = "done" /\ deploy.err = NoErr)
    => /\ ~imgRet.panic
       /\ imgRet.err = NoErr
       /\ imgRet.secret = IF Len(deploy.secrets.items) >= 1
                          THEN deploy.secrets.items[1] ELSE ""

====
